---------------------------- MODULE Spec2Model ----------------------------
(***************************************************************************)
(* Model of pysphere/toolbox.py: the recipe gate                           *)
(* (check_recipe_execution), the bad pixel map combiner                    *)
(* (compute_bad_pixel_map), the frame time and angle computations          *)
(* (compute_times, compute_angles) and the frame collapser                 *)
(* (collapse_frames_info).                                                 *)
(*                                                                         *)
(* Each function of the toolbox is an operator computed the way the code   *)
(* computes it, and one action applies it to inputs drawn in Init.         *)
(***************************************************************************)
EXTENDS Integers, Sequences, FiniteSets, TLC

VARIABLES
    recipe_execution,     \* dict: recipe -> has been executed
    recipe_name,          \* name of the current recipe
    recipe_requirements,  \* dict: recipe -> list of the recipes it requires
    gate,                 \* outcome of check_recipe_execution
    bpm_files,            \* list of the bad pixel maps read from the files
    bpm,                  \* outcome of compute_bad_pixel_map
    self_frames_info,     \* the frame information table of the caller
    stage,                \* what the table holds: "raw", "times", "angles"
                          \* (compute_angles returned), "failed" (it raised),
                          \* "edited" (a raw column changed since)
    raised,               \* exception of the last compute_angles, or "none"
    angle_runs,           \* calls of compute_angles made on the table
    edits,                \* edits the caller made to the table
    collapsed             \* outcome of collapse_frames_info

vars == <<recipe_execution, recipe_name, recipe_requirements, gate,
          bpm_files, bpm,
          self_frames_info, stage, raised, angle_runs, edits, collapsed>>

Range(s) == {s[i] : i \in DOMAIN s}

\* All the sequences over S of length at most n
SeqUpTo(S, n) == UNION {[1..k -> S] : k \in 0..n}

(***************************************************************************)
(* check_recipe_execution                                                  *)
(***************************************************************************)
Recipes == {"sort_files", "sort_frames", "sph_ifs_cal_dark"}

\* longest requirement list drawn
MaxReq == 2

\* the outcome of a call that has not been made
Pending == [status |-> "pending", value |-> FALSE, missing |-> <<>>]

\* A plausible slip: the loop stops at the first recipe that is missing
RECURSIVE RequirementsLoopFirstOnly(_, _, _, _)
RequirementsLoopFirstOnly(execution, requirements, execute_recipe, missing) ==
    IF requirements = <<>> \/ ~execute_recipe
    THEN [execute_recipe |-> execute_recipe, missing |-> missing]
    ELSE LET r == Head(requirements) IN
         IF ~execution[r]
         THEN RequirementsLoopFirstOnly(execution, Tail(requirements),
                                        FALSE, Append(missing, r))
         ELSE RequirementsLoopFirstOnly(execution, Tail(requirements),
                                        execute_recipe, missing)

\* for r in requirements: if not recipe_execution[r]: ...
RECURSIVE RequirementsLoop(_, _, _, _)
RequirementsLoop(execution, requirements, execute_recipe, missing) ==
    IF requirements = <<>>
    THEN [execute_recipe |-> execute_recipe, missing |-> missing]
    ELSE LET r == Head(requirements) IN
         IF ~execution[r]
         THEN RequirementsLoop(execution, Tail(requirements),
                               FALSE, Append(missing, r))
         ELSE RequirementsLoop(execution, Tail(requirements),
                               execute_recipe, missing)

check_recipe_execution(execution, name, requirement_table) ==
    LET requirements == requirement_table[name]
        loop == RequirementsLoop(execution, requirements, TRUE, <<>>)
    IN  IF ~loop.execute_recipe
        THEN [status |-> "ValueError", value |-> FALSE, missing |-> loop.missing]
        ELSE [status |-> "returned", value |-> loop.execute_recipe,
              missing |-> <<>>]

(***************************************************************************)
(* compute_bad_pixel_map                                                   *)
(***************************************************************************)
\* rows and columns of the maps: every file holds a map of this 2D shape
Shape == <<1, 2>>
Pixels == (1..Shape[1]) \X (1..Shape[2])

\* values a pixel of a file can hold: 0 is good, anything else is bad
PixelValues == {0, 1, 2}

\* longest list of files drawn
MaxFiles == 3

NoBpm == [status |-> "pending", shape |-> <<>>, data |-> <<>>]

\* the truth value numpy gives the elements of an integer array
nonzero(a) == [p \in DOMAIN a |-> a[p] /= 0]

\* A plausible slip: the maps are combined with a logical and
logical_and(a, b) == [p \in DOMAIN b |-> a[p] /\ nonzero(b)[p]]

\* np.logical_or(bpm, data), element by element; bpm is the running result
\* (its truth values) and data the integer map of a file
logical_or(a, b) == [p \in DOMAIN b |-> a[p] \/ nonzero(b)[p]]

\* .astype(dtype) of a boolean array: True is 1 and False is 0
astype(a) == [p \in DOMAIN a |-> IF a[p] = TRUE THEN 1 ELSE 0]

\* for f in bpm_files: bpm = np.logical_or(bpm, data)
RECURSIVE BpmLoop(_, _)
BpmLoop(acc, files) ==
    IF files = <<>> THEN acc
    ELSE BpmLoop(logical_or(acc, Head(files)), Tail(files))

\* fits.getdata(f).shape: rows and columns of a map
shape_of(data) ==
    <<CHOOSE r \in {p[1] : p \in DOMAIN data} :
          \A p \in DOMAIN data : p[1] <= r,
      CHOOSE c \in {p[2] : p \in DOMAIN data} :
          \A p \in DOMAIN data : p[2] <= c>>

\* np.zeros((shape[-2], shape[-1]), dtype=np.uint8)
zeros(shape) == [p \in (1..shape[1]) \X (1..shape[2]) |-> 0]

compute_bad_pixel_map(files) ==
    IF Len(files) = 0
    THEN [status |-> "ValueError", shape |-> <<>>, data |-> <<>>]
    ELSE LET shape == shape_of(files[1])
             result == astype(BpmLoop(nonzero(zeros(shape)), files))
         IN  [status |-> "returned", shape |-> shape_of(result),
              data |-> result]

(***************************************************************************)
(* The frame information table                                             *)
(*                                                                         *)
(* A table is the sequence of its rows in index order; a row is a record   *)
(* of its columns.  Instants and durations are integers counting           *)
(* nanoseconds (the resolution of the datetime64[ns] values of the table): *)
(* an instant counts from the start of the night of the observation.       *)
(* Angles are integers: RA in seconds of time, DEC and the longitude and   *)
(* latitude of the observatory in arc seconds, the telescope and           *)
(* derotator angles and the offsets in hundredths of a degree.             *)
(* DET SEQ1 DIT is held in microseconds.                                   *)
(***************************************************************************)
\* nanoseconds in a millisecond, the unit compute_times gives DIT
NsPerMs == 1000000

\* the instant of Time('2016-07-12') on the model's clock
DateFix == 30000000

\* a cell of a column that has not been assigned
NaN == -999999999

\* utc.mjd: the modified Julian date of an instant, counted in nanoseconds
\* from the modified Julian date of 2016-07-12 (negative before it)
Mjd(utc) == utc - DateFix

date_fix_mjd == Mjd(DateFix)

RawColumns == {"FILE", "IMG", "DATE_OBS", "DET_FRAM_UTC", "DET_NDIT",
               "DET_SEQ1_DIT", "TEL_GEOLON", "TEL_GEOLAT", "TEL_ALT",
               "INS4_DROT2_BEGIN", "INS4_DROT2_RA", "INS4_DROT2_DEC",
               "INS4_DROT2_MODE", "INS4_DROT2_POSANG", "SEQ_ARM"}
TimeColumns == {"TIME_START", "TIME", "TIME_END",
                "MJD_START", "MJD", "MJD_END"}

(***************************************************************************)
(* compute_times                                                           *)
(***************************************************************************)
\* np.array(DIT * 1000, dtype='timedelta64[ms]'): whole milliseconds, the
\* fraction dropped
DIT_ms(row) == row.DET_SEQ1_DIT \div 1000

\* (time_end - time_start) / NDIT: a timedelta64 divided by an integer is
\* an integer number of nanoseconds
time_delta(row) == (row.DET_FRAM_UTC - row.DATE_OBS) \div row.DET_NDIT

ts_start(row) == row.DATE_OBS + time_delta(row) * row.IMG

\* time_start + time_delta * idx + DIT/2: DIT/2 is a timedelta64[ms]
\* divided by an integer, a whole number of milliseconds
ts_mid(row) ==
    row.DATE_OBS + time_delta(row) * row.IMG + (DIT_ms(row) \div 2) * NsPerMs

ts_end(row) ==
    row.DATE_OBS + time_delta(row) * row.IMG + DIT_ms(row) * NsPerMs

compute_times(frames_info) ==
    [i \in DOMAIN frames_info |->
        [frames_info[i] EXCEPT
            !.TIME_START = ts_start(frames_info[i]),
            !.TIME       = ts_mid(frames_info[i]),
            !.TIME_END   = ts_end(frames_info[i]),
            !.MJD_START  = Mjd(ts_start(frames_info[i])),
            !.MJD        = Mjd(ts_mid(frames_info[i])),
            !.MJD_END    = Mjd(ts_end(frames_info[i]))]]

(***************************************************************************)
(* compute_angles                                                          *)
(***************************************************************************)
\* np.degrees(np.arctan(np.tan(np.radians(x)))): x brought into the range
\* from -90 to 90 degrees by whole half turns (x in hundredths of a degree,
\* away from the poles of the tangent)
arctan_tan(x) == ((x + 9000) % 18000) - 9000

\* the correction of one row
row_correction(row) == arctan_tan(row.TEL_ALT - 2 * row.INS4_DROT2_BEGIN)

\* derotator drift check and correction: one value per row when some row
\* is at or before the date of the fix, 0 for every row otherwise
pa_correction(frames_info) ==
    IF \E i \in DOMAIN frames_info : frames_info[i].MJD <= date_fix_mjd
    THEN [i \in DOMAIN frames_info |-> row_correction(frames_info[i])]
    ELSE [i \in DOMAIN frames_info |-> 0]

\* RA: hours, minutes and seconds unpacked from H*10000 + M*100 + S and
\* turned into one angle, here in seconds of time
decode_ra(ra_drot) ==
    LET ra_drot_h == ra_drot \div 10000
        ra_drot_m == (ra_drot - ra_drot_h * 10000) \div 100
        ra_drot_s == ra_drot - ra_drot_h * 10000 - ra_drot_m * 100
    IN  ra_drot_h * 3600 + ra_drot_m * 60 + ra_drot_s

\* DEC: the sign is taken off, degrees, minutes and seconds are unpacked,
\* the sign is put back on the degrees; the angle, here in arc seconds,
\* carries the sign of its degrees
decode_dec(dec_drot) ==
    LET sign == IF dec_drot < 0 THEN -1 ELSE 1
        udec_drot == IF dec_drot < 0 THEN -dec_drot ELSE dec_drot
        dec_drot_d == udec_drot \div 10000
        dec_drot_m == (udec_drot - dec_drot_d * 10000) \div 100
        dec_drot_s == udec_drot - dec_drot_d * 10000 - dec_drot_m * 100
    IN  sign * (dec_drot_d * 3600 + dec_drot_m * 60 + dec_drot_s)

\* utc.sidereal_time('apparent') at the longitude of the observatory.  The
\* astronomy is not modelled: this stands for a value that is fixed by the
\* instant and the longitude and changes with each of them.
sidereal_time(utc, geolon) == utc \div 100 + geolon

\* parallatic_angle(ha, dec, geolat).  The trigonometry is not modelled:
\* the arctangent is replaced by a value fixed by the three arguments that
\* changes with each of them; the turn added when dec >= geolat and ha < 0
\* is kept.
parallatic_angle(ha, dec, geolat) ==
    LET pa == ha + dec - geolat
    IN  IF dec >= geolat /\ ha < 0 THEN pa + 36000 ELSE pa

\* the parallactic angle of row i at the instant utc, before the drift
\* correction: the observatory and the declination are those of the first
\* row
parang(frames_info, i, utc) ==
    LET geolon == frames_info[1].TEL_GEOLON
        geolat == frames_info[1].TEL_GEOLAT
        ra     == decode_ra(frames_info[i].INS4_DROT2_RA)
        dec0   == decode_dec(frames_info[1].INS4_DROT2_DEC)
        lst    == sidereal_time(utc, geolon)
        ha     == lst - ra
    IN  parallatic_angle(ha, dec0, geolat)

\* A plausible slip: the angles are added onto the values the table holds
with_parang_accumulated(frames_info) ==
    LET corr == pa_correction(frames_info) IN
    [i \in DOMAIN frames_info |->
        LET row == frames_info[i]
            old == IF row.PARANG = NaN THEN 0 ELSE row.PARANG
        IN  [row EXCEPT
                !.RA  = decode_ra(row.INS4_DROT2_RA),
                !.DEC = decode_dec(row.INS4_DROT2_DEC),
                !.PARANG_START =
                    parang(frames_info, i, row.TIME_START) + corr[i],
                !.PARANG = old + parang(frames_info, i, row.TIME) + corr[i],
                !.PARANG_END =
                    parang(frames_info, i, row.TIME_END) + corr[i]]]

\* lines 139-187: the table with RA, DEC and the three parallactic angles
\* written
with_parang(frames_info) ==
    LET corr == pa_correction(frames_info) IN
    [i \in DOMAIN frames_info |->
        LET row == frames_info[i] IN
        [row EXCEPT
            !.RA  = decode_ra(row.INS4_DROT2_RA),
            !.DEC = decode_dec(row.INS4_DROT2_DEC),
            !.PARANG_START = parang(frames_info, i, row.TIME_START) + corr[i],
            !.PARANG       = parang(frames_info, i, row.TIME) + corr[i],
            !.PARANG_END   = parang(frames_info, i, row.TIME_END) + corr[i]]]

\* frames_info[col].unique()
unique(frames_info, col) == {frames_info[i][col] : i \in DOMAIN frames_info}

\* A plausible slip: unknown values of the column are not rejected
instrument_check_lenient(frames_info) ==
    LET instru == unique(frames_info, "SEQ_ARM") IN
    IF Cardinality(instru) /= 1 THEN [raised |-> "MixedInstrument", offset |-> 0]
    ELSE IF instru = {"IFS"} THEN [raised |-> "none", offset |-> -10048]
    ELSE [raised |-> "none", offset |-> 0]

\* lines 198-206: the instrument and its offset
instrument_check(frames_info) ==
    LET instru == unique(frames_info, "SEQ_ARM") IN
    IF Cardinality(instru) /= 1 THEN [raised |-> "MixedInstrument", offset |-> 0]
    ELSE IF instru = {"IFS"} THEN [raised |-> "none", offset |-> -10048]
    ELSE IF instru = {"IRDIS"} THEN [raised |-> "none", offset |-> 0]
    ELSE [raised |-> "UnknownInstrument", offset |-> 0]

\* lines 208-218: the derotator mode and the pupil offset of each row
derotator_check(frames_info) ==
    LET drot_mode == unique(frames_info, "INS4_DROT2_MODE")
        rows == DOMAIN frames_info
    IN
    IF Cardinality(drot_mode) /= 1
    THEN [raised |-> "MixedDerotatorMode", pupoff |-> <<>>]
    ELSE IF drot_mode = {"ELEV"}
    THEN [raised |-> "none", pupoff |-> [i \in rows |-> 13599]]
    ELSE IF drot_mode = {"SKY"}
    THEN [raised |-> "none",
          pupoff |-> [i \in rows |->
                         -10048 + frames_info[i].INS4_DROT2_POSANG]]
    ELSE IF drot_mode = {"STAT"}
    THEN [raised |-> "none", pupoff |-> [i \in rows |-> -10048]]
    ELSE [raised |-> "UnknownDerotatorMode", pupoff |-> <<>>]

\* A plausible slip: the pupil offset is written before the mode is checked
with_offsets_early(table, instru, drot) ==
    IF instru.raised /= "none"
    THEN [raised |-> instru.raised, table |-> table]
    ELSE IF drot.raised /= "none"
    THEN [raised |-> drot.raised,
          table |-> [i \in DOMAIN table |->
                        [table[i] EXCEPT !.PUPIL_OFFSET = instru.offset]]]
    ELSE [raised |-> "none",
          table |-> [i \in DOMAIN table |->
                        [table[i] EXCEPT
                            !.PUPIL_OFFSET = drot.pupoff[i] + instru.offset,
                            !.DEROT_ANGLE = table[i].PARANG + drot.pupoff[i]]]]

\* lines 198-223: the two checks in the order of the code, then the two
\* columns written when both pass
with_offsets(table, instru, drot) ==
    IF instru.raised /= "none"
    THEN [raised |-> instru.raised, table |-> table]
    ELSE IF drot.raised /= "none"
    THEN [raised |-> drot.raised, table |-> table]
    ELSE [raised |-> "none",
          table |-> [i \in DOMAIN table |->
                        [table[i] EXCEPT
                            !.PUPIL_OFFSET = drot.pupoff[i] + instru.offset,
                            !.DEROT_ANGLE = table[i].PARANG + drot.pupoff[i]]]]

\* compute_angles: the exception raised ("none" when it returns) and the
\* table as the call leaves it.  A table without rows has no first row to
\* read the observatory from: frames_info['TEL GEOLON'].values[0] raises.
compute_angles(frames_info) ==
    IF frames_info = <<>>
    THEN [raised |-> "IndexError", table |-> frames_info]
    ELSE LET table == with_parang(frames_info)
         IN  with_offsets(table, instrument_check(table),
                          derotator_check(table))

(***************************************************************************)
(* collapse_frames_info                                                    *)
(***************************************************************************)
\* finfo.loc[(fname, img)]
loc(finfo, fname, img) ==
    finfo[CHOOSE i \in DOMAIN finfo :
              finfo[i].FILE = fname /\ finfo[i].IMG = img]

\* A plausible slip: the mid time is the mid time of the first frame
collapsed_row_first_mid(finfo, fname, f, imin, imax) ==
    LET first == loc(finfo, fname, imin)
        last == loc(finfo, fname, imax)
    IN  [first EXCEPT
            !.IMG = f,
            !.DET_NDIT = 1,
            !.TIME_START = first.TIME_START,
            !.TIME_END = last.TIME_END]

\* the row of index f of the new table: the row imin copied, then the
\* time values updated.  A Timedelta divided by 2 is a whole number of
\* nanoseconds.
collapsed_row(finfo, fname, f, imin, imax) ==
    LET first == loc(finfo, fname, imin)
        last == loc(finfo, fname, imax)
    IN  [first EXCEPT
            !.IMG = f,
            !.DET_NDIT = 1,
            !.TIME_START = first.TIME_START,
            !.TIME_END = last.TIME_END,
            !.TIME = first.TIME_START
                     + (last.TIME_END - first.TIME_START) \div 2]

\* smallest and largest element of a non-empty set of integers
Min(S) == CHOOSE x \in S : \A y \in S : x <= y
Max(S) == CHOOSE x \in S : \A y \in S : x >= y

\* recompute angles: the new table is returned when compute_angles returns
recomputed(nfinfo) ==
    LET angles == compute_angles(nfinfo) IN
    IF angles.raised /= "none"
    THEN [status |-> "raised", raised |-> angles.raised, nfinfo |-> <<>>]
    ELSE [status |-> "returned", raised |-> "none", nfinfo |-> angles.table]

collapse_frames_info(finfo, fname, collapse_type, coadd_value) ==
    IF collapse_type = "none"
    THEN [status |-> "returned", raised |-> "none", nfinfo |-> finfo]
    ELSE IF collapse_type = "mean"
    THEN LET imin == Min({finfo[i].IMG : i \in DOMAIN finfo})
             imax == Max({finfo[i].IMG : i \in DOMAIN finfo})
         IN  recomputed(<<collapsed_row(finfo, fname, 0, imin, imax)>>)
    ELSE IF collapse_type = "coadd"
    THEN LET NDIT == Len(finfo)
             NDIT_new == NDIT \div coadd_value
         IN  recomputed([k \in 1..NDIT_new |->
                 LET f == k - 1 IN
                 collapsed_row(finfo, fname, f,
                               f * coadd_value, (f + 1) * coadd_value - 1)])
    ELSE [status |-> "raised", raised |-> "UnknownCollapseType",
          nfinfo |-> <<>>]

(***************************************************************************)
(* Idle values of the variables a specification does not use               *)
(***************************************************************************)
GateIdle ==
    /\ recipe_execution = [r \in Recipes |-> FALSE]
    /\ recipe_name = "sort_files"
    /\ recipe_requirements = [r \in Recipes |-> <<>>]
    /\ gate = Pending

BpmIdle ==
    /\ bpm_files = <<>>
    /\ bpm = NoBpm

NotCollapsed == [status |-> "pending", collapse_type |-> "none",
                 coadd_value |-> 0, raised |-> "none", nfinfo |-> <<>>]

FramesIdle ==
    /\ self_frames_info = <<>>
    /\ stage = "raw"
    /\ raised = "none"
    /\ angle_runs = 0
    /\ edits = 0
    /\ collapsed = NotCollapsed

framesVars == <<self_frames_info, stage, raised, angle_runs, edits, collapsed>>

gateVars == <<recipe_execution, recipe_name, recipe_requirements, gate>>
bpmVars == <<bpm_files, bpm>>

(***************************************************************************)
(* The recipe gate: the caller holds the two tables and asks for a recipe  *)
(***************************************************************************)
InitGate ==
    /\ recipe_execution \in [Recipes -> BOOLEAN]
    /\ recipe_name \in Recipes
    /\ recipe_requirements \in [Recipes -> SeqUpTo(Recipes, MaxReq)]
    /\ gate = Pending
    /\ BpmIdle
    /\ FramesIdle

CheckRecipe ==
    /\ gate.status = "pending"
    /\ gate' = check_recipe_execution(recipe_execution, recipe_name,
                                      recipe_requirements)
    /\ UNCHANGED <<recipe_execution, recipe_name, recipe_requirements,
                   bpmVars, framesVars>>

NextGate == CheckRecipe

SpecGate == InitGate /\ [][NextGate]_vars

(***************************************************************************)
(* The bad pixel map combiner                                              *)
(***************************************************************************)
InitBpm ==
    /\ bpm_files \in SeqUpTo([Pixels -> PixelValues], MaxFiles)
    /\ bpm = NoBpm
    /\ GateIdle
    /\ FramesIdle

ComputeBadPixelMap ==
    /\ bpm.status = "pending"
    /\ bpm' = compute_bad_pixel_map(bpm_files)
    /\ UNCHANGED <<bpm_files, gateVars, framesVars>>

NextBpm == ComputeBadPixelMap

SpecBpm == InitBpm /\ [][NextBpm]_vars

(***************************************************************************)
(* Frame tables: the rows of one file as the file catalogue provides them  *)
(***************************************************************************)
\* most rows of a table of the angle specification
MaxAngleRows == 2

\* most rows (sub-exposures) of a table of the collapse specification
MaxRows == 3

\* largest coadd_value drawn
MaxCoadd == 4

\* most calls of compute_angles on one table
MaxRuns == 2

\* most edits of one table
MaxEdits == 1

Arms == {"IFS", "IRDIS", "ZIMPOL"}
Modes == {"ELEV", "SKY", "STAT", "FIELD"}

\* DATE-OBS: before the date of the fix, just before it, after it
StartTimes == {DateFix - 20 * NsPerMs, DateFix - NsPerMs, DateFix + NsPerMs}

\* DET FRAM UTC - DATE-OBS
Spans == {1 * NsPerMs, 4 * NsPerMs, 6 * NsPerMs}

\* DET SEQ1 DIT, in microseconds: 1 ms, 2 ms and 3.5 ms
DITs == {1000, 2000, 3500}

\* INS4 DROT2 RA and DEC of the targets: 23:59:59 -20:30:04, north of the
\* latitude of the observatory, and 01:02:03 -30:15:00, south of it
Targets == {<<235959, -203004>>, <<10203, -301500>>}

fname == "SPHER.2016-07-11T23:59:59.980"

RawRow(img, ndit, t0, span, dit, target, arm, mode) ==
    [FILE |-> fname, IMG |-> img,
     DATE_OBS |-> t0, DET_FRAM_UTC |-> t0 + span,
     DET_NDIT |-> ndit, DET_SEQ1_DIT |-> dit,
     TEL_GEOLON |-> -253456, TEL_GEOLAT |-> -88656,
     TEL_ALT |-> 8000 + 100 * img, INS4_DROT2_BEGIN |-> -2000,
     INS4_DROT2_RA |-> target[1], INS4_DROT2_DEC |-> target[2],
     INS4_DROT2_MODE |-> mode, INS4_DROT2_POSANG |-> 1500 + 100 * img,
     SEQ_ARM |-> arm,
     TIME_START |-> NaN, TIME |-> NaN, TIME_END |-> NaN,
     MJD_START |-> NaN, MJD |-> NaN, MJD_END |-> NaN,
     RA |-> NaN, DEC |-> NaN,
     PARANG_START |-> NaN, PARANG |-> NaN, PARANG_END |-> NaN,
     PUPIL_OFFSET |-> NaN, DEROT_ANGLE |-> NaN]

\* the table of a file of n sub-exposures; arms and modes give SEQ ARM and
\* INS4 DROT2 MODE row by row
RawTable(n, t0, span, dit, target, arms, modes) ==
    [k \in 1..n |-> RawRow(k - 1, n, t0, span, dit, target, arms[k], modes[k])]

ComputeTimes ==
    /\ stage = "raw"
    /\ self_frames_info /= <<>>
    /\ self_frames_info' = compute_times(self_frames_info)
    /\ stage' = "times"
    /\ UNCHANGED <<raised, angle_runs, edits, collapsed, gateVars, bpmVars>>

ComputeAngles ==
    /\ stage \in {"times", "angles", "failed", "edited"}
    /\ angle_runs < MaxRuns
    /\ LET call == compute_angles(self_frames_info) IN
        /\ self_frames_info' = call.table
        /\ raised' = call.raised
        /\ stage' = IF call.raised = "none" THEN "angles" ELSE "failed"
    /\ angle_runs' = angle_runs + 1
    /\ UNCHANGED <<edits, collapsed, gateVars, bpmVars>>

\* The caller corrects the instrument arm of one row of its table
EditRow(i, arm) ==
    /\ stage \in {"angles", "failed"}
    /\ edits < MaxEdits
    /\ i \in DOMAIN self_frames_info
    /\ self_frames_info[i].SEQ_ARM /= arm
    /\ self_frames_info' = [self_frames_info EXCEPT ![i].SEQ_ARM = arm]
    /\ stage' = "edited"
    /\ edits' = edits + 1
    /\ UNCHANGED <<raised, angle_runs, collapsed, gateVars, bpmVars>>

CollapseFramesInfo(collapse_type, coadd_value) ==
    /\ stage = "angles"
    /\ collapsed.status = "pending"
    /\ LET call == collapse_frames_info(self_frames_info, fname,
                                        collapse_type, coadd_value)
       IN  collapsed' = [status |-> call.status,
                         collapse_type |-> collapse_type,
                         coadd_value |-> coadd_value,
                         raised |-> call.raised,
                         nfinfo |-> call.nfinfo]
    /\ UNCHANGED <<self_frames_info, stage, raised, angle_runs, edits,
                   gateVars, bpmVars>>

(***************************************************************************)
(* compute_times then compute_angles on a table whose SEQ ARM and          *)
(* INS4 DROT2 MODE columns hold any values                                 *)
(***************************************************************************)
\* DATE-OBS and DET SEQ1 DIT of the tables, the sub-exposures 2 ms apart:
\* every mid time before the date of the fix; the first before it and the
\* others after it; the first at it and the others after it; every one
\* after it
AngleTimes == {<<DateFix - 20 * NsPerMs, 1000>>, <<DateFix - NsPerMs, 1000>>,
               <<DateFix - NsPerMs, 2000>>, <<DateFix + NsPerMs, 2000>>}

InitAngles ==
    /\ \E n \in 1..MaxAngleRows, time \in AngleTimes,
          arms \in [1..MaxAngleRows -> Arms],
          modes \in [1..MaxAngleRows -> Modes] :
          /\ \A k \in (n + 1)..MaxAngleRows :
                 arms[k] = "IFS" /\ modes[k] = "ELEV"
          /\ self_frames_info =
                 RawTable(n, time[1], 2 * n * NsPerMs, time[2],
                          <<235959, -203004>>, arms, modes)
    /\ stage = "raw"
    /\ raised = "none"
    /\ angle_runs = 0
    /\ edits = 0
    /\ collapsed = NotCollapsed
    /\ GateIdle
    /\ BpmIdle

NextAngles ==
    \/ ComputeTimes
    \/ ComputeAngles
    \/ \E i \in 1..MaxAngleRows, arm \in Arms : EditRow(i, arm)

SpecAngles == InitAngles /\ [][NextAngles]_vars

(***************************************************************************)
(* The frames of one file, through compute_times, compute_angles and       *)
(* collapse_frames_info                                                    *)
(***************************************************************************)
CollapseTypes == {"none", "mean", "coadd", "median"}

InitCollapse ==
    /\ \E n \in 1..MaxRows, t0 \in StartTimes, span \in Spans, dit \in DITs,
          target \in Targets, arm \in {"IFS", "IRDIS"},
          mode \in {"ELEV", "SKY", "STAT"} :
          self_frames_info = RawTable(n, t0, span, dit, target,
                                 [k \in 1..n |-> arm], [k \in 1..n |-> mode])
    /\ stage = "raw"
    /\ raised = "none"
    /\ angle_runs = 0
    /\ edits = 0
    /\ collapsed = NotCollapsed
    /\ GateIdle
    /\ BpmIdle

NextCollapse ==
    \/ ComputeTimes
    \/ ComputeAngles
    \/ \E collapse_type \in CollapseTypes, coadd_value \in 1..MaxCoadd :
           CollapseFramesInfo(collapse_type, coadd_value)

SpecCollapse == InitCollapse /\ [][NextCollapse]_vars

-----------------------------------------------------------------------------
\* C1: check_recipe_execution returns True exactly when every required recipe
\* of the current recipe is marked executed; otherwise it raises, and the
\* recipes it reports missing are exactly the required recipes not executed.
C1_GateIffAllExecuted ==
    gate.status /= "pending" =>
        LET required == Range(recipe_requirements[recipe_name])
            unmet == {r \in required : ~recipe_execution[r]}
        IN  /\ (gate.status = "returned") <=> (unmet = {})
            /\ gate.status = "returned" => gate.value = TRUE
            /\ gate.status \in {"returned", "ValueError"}
            /\ gate.status = "ValueError" => Range(gate.missing) = unmet

\* a call that fails with two different recipes missing
C1_Witness ==
    /\ gate.status = "ValueError"
    /\ Cardinality(Range(gate.missing)) = 2

\* C8: the combined map has the shape of the input maps and holds 1 where
\* some input map is non-zero and 0 elsewhere; no file gives ValueError.
C8_BpmIsUnion ==
    bpm.status /= "pending" =>
        IF bpm_files = <<>>
        THEN bpm.status = "ValueError" /\ bpm.data = <<>>
        ELSE /\ bpm.status = "returned"
             /\ bpm.shape = Shape
             /\ DOMAIN bpm.data = Pixels
             /\ \A p \in Pixels :
                    bpm.data[p] =
                        IF \E i \in DOMAIN bpm_files : bpm_files[i][p] /= 0
                        THEN 1 ELSE 0

\* two maps, each bad at the pixel where the other is good, one holding a
\* non-zero value other than 1
C8_Witness ==
    /\ bpm.status = "returned"
    /\ Len(bpm_files) = 2
    /\ bpm_files[1][<<1, 1>>] = 2 /\ bpm_files[1][<<1, 2>>] = 0
    /\ bpm_files[2][<<1, 1>>] = 0 /\ bpm_files[2][<<1, 2>>] = 1
    /\ \A p \in Pixels : bpm.data[p] = 1

\* the sub-exposures of the table the caller collapsed
N == Len(self_frames_info)

\* C2: in mode coadd, for every number of sub-exposures N >= 1 and every
\* group size g >= 1, the call returns a table of N \div g rows whose row f
\* runs from the start of sub-exposure f*g to the end of (f+1)*g - 1.
C2_CoaddReturnsFloorRows ==
    (collapsed.status /= "pending" /\ collapsed.collapse_type = "coadd") =>
        LET g == collapsed.coadd_value IN
        /\ collapsed.status = "returned"
        /\ Len(collapsed.nfinfo) = N \div g
        /\ \A f \in 0..((N \div g) - 1) :
               /\ collapsed.nfinfo[f + 1].IMG = f
               /\ collapsed.nfinfo[f + 1].TIME_START =
                      self_frames_info[f * g + 1].TIME_START
               /\ collapsed.nfinfo[f + 1].TIME_END =
                      self_frames_info[(f + 1) * g].TIME_END

\* C3: with coadd_value 1, mode coadd returns the table mode none returns
\* (the table of the caller), every column of every row equal, but for
\* DET NDIT, which is 1.
C3_CoaddOneIsNone ==
    (collapsed.status /= "pending" /\ collapsed.collapse_type = "coadd"
        /\ collapsed.coadd_value = 1) =>
        /\ collapsed.status = "returned"
        /\ collapsed.nfinfo =
               [i \in DOMAIN self_frames_info |->
                   [self_frames_info[i] EXCEPT !.DET_NDIT = 1]]

C5_CorrectionRowByRow ==
    stage \in {"angles", "failed"} =>
        \A i \in DOMAIN self_frames_info :
            LET row == self_frames_info[i]
                due == IF row.MJD <= date_fix_mjd
                       THEN row_correction(row) ELSE 0
            IN  /\ row.PARANG_START =
                       parang(self_frames_info, i, row.TIME_START) + due
                /\ row.PARANG = parang(self_frames_info, i, row.TIME) + due
                /\ row.PARANG_END =
                       parang(self_frames_info, i, row.TIME_END) + due

\* the instrument offset and the offset of the derotator mode, as the
\* claim C6 gives them
C6_InstrumentOffset(arm) == IF arm = "IFS" THEN -10048 ELSE 0
C6_ModeOffset(row) ==
    IF row.INS4_DROT2_MODE = "ELEV" THEN 13599
    ELSE IF row.INS4_DROT2_MODE = "SKY" THEN -10048 + row.INS4_DROT2_POSANG
    ELSE -10048

C7_AnglesIdempotent ==
    [][(stage = "angles" /\ angle_runs' = angle_runs + 1) =>
           (stage' = "angles" /\ self_frames_info' = self_frames_info)]_vars

\* compute_angles returned twice on a table the caller never edited
C7_Witness ==
    /\ stage = "angles"
    /\ angle_runs = 2
    /\ edits = 0
    /\ N = 2

\* C9: in a table returned in mode mean or coadd, the three MJD columns of
\* each row are the modified Julian dates of the three TIME columns of
\* that row.
C9_MjdOfOwnTimes ==
    (collapsed.status = "returned"
        /\ collapsed.collapse_type \in {"mean", "coadd"}) =>
        \A i \in DOMAIN collapsed.nfinfo :
            LET row == collapsed.nfinfo[i] IN
            /\ row.MJD_START = Mjd(row.TIME_START)
            /\ row.MJD = Mjd(row.TIME)
            /\ row.MJD_END = Mjd(row.TIME_END)

\* C10: a call of compute_angles that raises one of the four instrument
\* and derotator mode errors has written RA, DEC and the three parallactic
\* angles, and has written neither PUPIL OFFSET nor DEROT ANGLE.
C10_FailureLeavesOffsetsUnwritten ==
    [][(angle_runs' = angle_runs + 1
          /\ raised' \in {"MixedInstrument", "UnknownInstrument",
                          "MixedDerotatorMode", "UnknownDerotatorMode"}) =>
           /\ DOMAIN self_frames_info' = DOMAIN self_frames_info
           /\ \A i \in DOMAIN self_frames_info :
                  LET old == self_frames_info[i]
                      new == self_frames_info'[i]
                      corr == pa_correction(self_frames_info)[i]
                  IN  /\ new.PUPIL_OFFSET = old.PUPIL_OFFSET
                      /\ new.DEROT_ANGLE = old.DEROT_ANGLE
                      /\ new.RA = decode_ra(old.INS4_DROT2_RA)
                      /\ new.DEC = decode_dec(old.INS4_DROT2_DEC)
                      /\ new.PARANG_START =
                             parang(self_frames_info, i, old.TIME_START) + corr
                      /\ new.PARANG =
                             parang(self_frames_info, i, old.TIME) + corr
                      /\ new.PARANG_END =
                             parang(self_frames_info, i, old.TIME_END) + corr
                      /\ \A col \in RawColumns \cup TimeColumns :
                             new[col] = old[col]]_vars

\* a first call that raised on a fresh table: the angles are written, the
\* two offsets columns are not
C10_Witness ==
    /\ stage = "failed"
    /\ angle_runs = 1
    /\ raised = "UnknownDerotatorMode"
    /\ \A i \in DOMAIN self_frames_info :
           /\ self_frames_info[i].PARANG /= NaN
           /\ self_frames_info[i].RA /= NaN
           /\ self_frames_info[i].PUPIL_OFFSET = NaN
           /\ self_frames_info[i].DEROT_ANGLE = NaN

\* a call that raised on a table an earlier call had returned from, after
\* the caller changed an arm: the offsets of the earlier call are still
\* there
C10_WitnessStale ==
    /\ stage = "failed"
    /\ angle_runs = 2
    /\ edits = 1
    /\ \A i \in DOMAIN self_frames_info :
           self_frames_info[i].PUPIL_OFFSET /= NaN

=============================================================================
